---- MODULE Spec2Model ----
(***************************************************************************)
(* iPhone price monitor: backend/price_monitor.py (one run of main() and   *)
(* the functions it calls) and backend/app.py (the read API get_prices).   *)
(*                                                                         *)
(* Conventions.                                                            *)
(*  - Optional[T] is a sequence of length at most one: None is <<>> and a  *)
(*    value v is <<v>>.                                                    *)
(*  - A price is held in hundredths of the currency unit (12.34 is 1234),  *)
(*    a threshold in hundredths of a percent (5.0 is 500); quotients are   *)
(*    compared by cross-multiplication, i.e. in exact arithmetic (the      *)
(*    IEEE-754 rounding of the Python floats is not modelled).             *)
(*  - A timestamp (an ISO-8601 string compared lexicographically) is a     *)
(*    natural number with the same order.                                  *)
(*  - A text is a sequence of one-character strings.                       *)
(***************************************************************************)
EXTENDS Integers, Sequences, FiniteSets, TLC

VARIABLES
    pc,          \* position of the process (main(), or the function under study)
    file,        \* prices.json on disk: [exists, content]
    env,         \* os.environ: the notification keys, each Optional[str]
    prices,      \* main: the list `prices`
    loaded,      \* what load_prices() returned at the start of the run
    timestamp,   \* main: `timestamp`, taken once per run
    i,           \* main: position of the for-loop in MODELS.keys() (1-based)
    price,       \* main: `price` of the current iteration
    old_price,   \* main: `old_price` of the current iteration
    threshold,   \* main: `threshold` of the current iteration
    calls,       \* notifier calls made in the current iteration, in order
    fetched,     \* fetch_price calls made in this run, in order, with their result
    api_resp,    \* last response of GET /api/prices
    page,        \* the HTTP response handed to an extraction function
    drop         \* result of check_price_drop

vars == <<pc, file, env, prices, loaded, timestamp, i, price, old_price,
          threshold, calls, fetched, api_resp, page, drop>>

---------------------------------------------------------------------------
(* Bounds of the model *)

\* longest history stored in prices.json when the run starts
MaxHist == 1
\* timestamps of a run range over 1..MaxTime
MaxTime == 2
\* tokens the buffer of the open file holds before it is written out
BufferTokens == 4
\* most elements a marketplace page matches over all its selectors
MaxElems == 2
\* longest history handed to get_latest_price when it is studied alone
MaxLen == 3
\* timestamps of those histories range over 1..MaxStamp
MaxStamp == 2
\* prices (in hundredths) and thresholds handed to check_price_drop alone
MaxPrice == 20

---------------------------------------------------------------------------
(* Optional values *)

None == <<>>
Some(v) == <<v>>
IsNone(o) == o = <<>>
Val(o) == o[1]

---------------------------------------------------------------------------
(* Configuration: MODELS, in insertion order *)

MODELS == << "iPhone 15 Pro Max", "iPhone 16 Pro Max", "iPhone 17 Pro Max" >>

ModelKeys == { MODELS[k] : k \in 1..Len(MODELS) }

ModelSource(model) ==
    IF model = "iPhone 15 Pro Max" THEN "apple_refurbished" ELSE "reebelo"

\* model.split()[1], the suffix of the PRICE_THRESHOLD_ key
ModelNumber(model) ==
    CASE model = "iPhone 15 Pro Max" -> "15"
      [] model = "iPhone 16 Pro Max" -> "16"
      [] model = "iPhone 17 Pro Max" -> "17"

---------------------------------------------------------------------------
(* Text handling shared by the two extraction functions *)

DecimalDigits == {"0", "1", "2", "3", "4", "5", "6", "7", "8", "9"}

\* str.isdigit: true of the decimal digits and of digit-like characters such
\* as the superscript two, which float() does not accept
IsDigit(c) == c \in DecimalDigits \cup {"^2"}

DigitVal(c) ==
    CASE c = "0" -> 0 [] c = "1" -> 1 [] c = "2" -> 2 [] c = "3" -> 3
      [] c = "4" -> 4 [] c = "5" -> 5 [] c = "6" -> 6 [] c = "7" -> 7
      [] c = "8" -> 8 [] c = "9" -> 9

\* price_text.replace(',', '')
StripCommas(text) == SelectSeq(text, LAMBDA c : c # ",")

RECURSIVE ToNat(_)
ToNat(digits) ==
    IF digits = <<>> THEN 0
    ELSE 10 * ToNat(SubSeq(digits, 1, Len(digits) - 1))
         + DigitVal(digits[Len(digits)])

AllDecimal(s) == \A k \in 1..Len(s) : s[k] \in DecimalDigits

RECURSIVE Pow10(_)
Pow10(n) == IF n = 0 THEN 1 ELSE 10 * Pow10(n - 1)

---------------------------------------------------------------------------
(* fetch_apple_refurbished_price *)

\* the price_selectors list of fetch_apple_refurbished_price
AppleSelectors ==
    << "span[class*=price]", "div[class*=price]", "[data-autom=price]",
       ".as-price-currentprice" >>

\* ''.join(filter(str.isdigit, price_text.replace(',', '')))
AppleDigits(text) == SelectSeq(StripCommas(text), IsDigit)

\* float(price_str) / 100 if len(price_str) > 2 else float(price_str);
\* None stands for the ValueError of float(), which the function catches
AppleValue(price_str) ==
    IF ~AllDecimal(price_str) THEN None
    ELSE IF Len(price_str) > 2 THEN Some(ToNat(price_str))
    ELSE Some(100 * ToNat(price_str))

\* AppleLoop with `return None` once a matched element carries no digit
RECURSIVE AppleLoopFirstMatchOnly(_, _)
AppleLoopFirstMatchOnly(sel, k) ==
    IF k > Len(sel) THEN None
    ELSE IF IsNone(sel[k]) THEN AppleLoopFirstMatchOnly(sel, k + 1)
    ELSE IF AppleDigits(Val(sel[k])) = <<>> THEN None
    ELSE AppleValue(AppleDigits(Val(sel[k])))

\* The loop over price_selectors from selector k on. sel[k] is the text of
\* soup.select_one(price_selectors[k]), None when nothing matches.
RECURSIVE AppleLoop(_, _)
AppleLoop(sel, k) ==
    IF k > Len(sel) THEN None
    ELSE IF IsNone(sel[k]) THEN AppleLoop(sel, k + 1)
    ELSE IF AppleDigits(Val(sel[k])) = <<>> THEN AppleLoop(sel, k + 1)
    ELSE AppleValue(AppleDigits(Val(sel[k])))

\* resp: [ok, sel, elems]; ok is FALSE when requests raises RequestException
fetch_apple_refurbished_price(resp) ==
    IF ~resp.ok THEN None ELSE AppleLoop(resp.sel, 1)

---------------------------------------------------------------------------
(* fetch_reebelo_price *)

\* ''.join(filter(lambda x: x.isdigit() or x == '.', price_text.replace(',', '')))
ReebeloDigits(text) ==
    SelectSeq(StripCommas(text), LAMBDA c : IsDigit(c) \/ c = ".")

Dots(s) == { k \in 1..Len(s) : s[k] = "." }

\* float(price_str) succeeds: decimal digits with at most one point, and at
\* least one digit
FloatOk(s) ==
    /\ \A k \in 1..Len(s) : s[k] \in DecimalDigits \cup {"."}
    /\ Cardinality(Dots(s)) <= 1
    /\ \E k \in 1..Len(s) : s[k] \in DecimalDigits

\* float(price_str) in hundredths, for a string of at most two decimals
FloatOf(s) ==
    LET digits == SelectSeq(s, LAMBDA c : c # ".")
        decimals == IF Dots(s) = {} THEN 0
                    ELSE Len(s) - (CHOOSE k \in Dots(s) : TRUE)
    IN  ToNat(digits) * Pow10(2 - decimals)

\* the prices_found list built from the texts of the matched elements
RECURSIVE PricesFound(_)
PricesFound(elems) ==
    IF elems = <<>> THEN <<>>
    ELSE LET price_str == ReebeloDigits(Head(elems))
             rest == PricesFound(Tail(elems))
         IN  IF FloatOk(price_str)
                /\ 100 * 100 < FloatOf(price_str)
                /\ FloatOf(price_str) < 5000 * 100
             THEN <<FloatOf(price_str)>> \o rest
             ELSE rest

SeqMin(s) == CHOOSE m \in { s[k] : k \in 1..Len(s) } :
                 \A k \in 1..Len(s) : m <= s[k]

fetch_reebelo_price(resp) ==
    IF ~resp.ok THEN None
    ELSE IF PricesFound(resp.elems) # <<>> THEN Some(SeqMin(PricesFound(resp.elems)))
    ELSE None

---------------------------------------------------------------------------
(* The pages the model feeds to the extraction functions *)

AppleTexts ==
    { << "$" >>,                                \* no digit at all
      << "0" >>,
      << "1", "2" >>,
      << "$", "1", ",", "2", "3", "4" >>,
      << "^2" >> }                              \* isdigit, but not a float

ReebeloTexts ==
    { << "$", "1", ",", "0", "0", "0", ".", "0", "0" >>,
      << "$", "9", "4", "0" >>,
      << "$", "9", "9" >>,                      \* below the range
      << "5", "0", "0", "0" >>,                 \* the excluded upper end
      << "1", ".", "2", ".", "3" >> }           \* float() raises ValueError

NoPage == [ok |-> FALSE, sel |-> <<>>, elems |-> <<>>]

AppleResponses ==
    {NoPage} \cup
    { [ok |-> TRUE, sel |-> s, elems |-> <<>>] :
        s \in [1..Len(AppleSelectors) -> {None} \cup { Some(t) : t \in AppleTexts }] }

SeqsUpTo(S, n) == UNION { [1..k -> S] : k \in 0..n }

ReebeloResponses ==
    {NoPage} \cup
    { [ok |-> TRUE, sel |-> <<>>, elems |-> e] : e \in SeqsUpTo(ReebeloTexts, MaxElems) }

Responses(source) ==
    IF source = "apple_refurbished" THEN AppleResponses ELSE ReebeloResponses

\* fetch_price: dispatch on config['source']
fetch_price(model, resp) ==
    IF ModelSource(model) = "apple_refurbished"
    THEN fetch_apple_refurbished_price(resp)
    ELSE fetch_reebelo_price(resp)

AppleOutcomes == { fetch_apple_refurbished_price(r) : r \in AppleResponses }
ReebeloOutcomes == { fetch_reebelo_price(r) : r \in ReebeloResponses }

\* what fetch_price(model) can return, over all the pages above
FetchOutcomes(model) ==
    IF ModelSource(model) = "apple_refurbished" THEN AppleOutcomes ELSE ReebeloOutcomes

---------------------------------------------------------------------------
(* History entries and the JSON file *)

\* the dict built in main(); url and image_url are fixed by the model
Entry(ts, model, p) ==
    [timestamp |-> ts, model |-> model, price |-> p, source |-> ModelSource(model)]

NoEntry == [timestamp |-> 0, model |-> "", price |-> 0, source |-> ""]

Tok(t) == [t |-> t, v |-> NoEntry]
Obj(e) == [t |-> "obj", v |-> e]

\* json.dump(prices, f, indent=2): the text as a sequence of tokens
RECURSIVE DumpItems(_)
DumpItems(h) ==
    IF h = <<>> THEN <<>>
    ELSE IF Len(h) = 1 THEN << Obj(h[1]) >>
    ELSE << Obj(h[1]), Tok(",") >> \o DumpItems(Tail(h))

json_dump(h) == << Tok("[") >> \o DumpItems(h) \o << Tok("]") >>

\* json.load succeeds on a text: a complete array of objects
JsonOk(c) ==
    /\ Len(c) >= 2
    /\ c[1] = Tok("[")
    /\ c[Len(c)] = Tok("]")
    /\ \/ Len(c) = 2
       \/ /\ Len(c) % 2 = 1
          /\ \A k \in 2..(Len(c) - 1) :
                IF k % 2 = 0 THEN c[k].t = "obj" ELSE c[k] = Tok(",")

\* the list json.load returns for such a text
json_load(c) == [k \in 1..((Len(c) - 1) \div 2) |-> c[2 * k].v]

Absent == [exists |-> FALSE, content |-> <<>>]
OnDisk(c) == [exists |-> TRUE, content |-> c]

\* load_prices(): [] when the file is absent or does not parse
load_prices(f) ==
    IF f.exists /\ JsonOk(f.content) THEN json_load(f.content) ELSE <<>>

---------------------------------------------------------------------------
(* get_latest_price *)

\* InsertByTimestamp of a sort that is not stable: the element goes before
\* the elements of equal timestamp
InsertByTimestampUnstable(sorted, e) ==
    LET n == Cardinality({ k \in 1..Len(sorted) : sorted[k].timestamp > e.timestamp })
    IN  SubSeq(sorted, 1, n) \o <<e>> \o SubSeq(sorted, n + 1, Len(sorted))

\* one step of list.sort(key=timestamp, reverse=True): the sort is stable, so
\* an element goes behind every element whose timestamp is not smaller
InsertByTimestamp(sorted, e) ==
    LET n == Cardinality({ k \in 1..Len(sorted) : sorted[k].timestamp >= e.timestamp })
    IN  SubSeq(sorted, 1, n) \o <<e>> \o SubSeq(sorted, n + 1, Len(sorted))

RECURSIVE SortByTimestampDesc(_)
SortByTimestampDesc(s) ==
    IF s = <<>> THEN <<>>
    ELSE InsertByTimestamp(SortByTimestampDesc(SubSeq(s, 1, Len(s) - 1)), s[Len(s)])

get_latest_price(h, model) ==
    LET model_prices == SelectSeq(h, LAMBDA p : p.model = model)
    IN  IF model_prices = <<>> THEN None
        ELSE Some(SortByTimestampDesc(model_prices)[1].price)

---------------------------------------------------------------------------
(* check_price_drop and get_threshold *)

\* DropPercentAtLeast with > in place of >=
DropPercentAbove(new_price, old, t) ==
    IF old > 0 THEN (old - new_price) * 100 * 100 > t * old
    ELSE (old - new_price) * 100 * 100 < t * old

\* ((old_price - new_price) / old_price) * 100 >= threshold_percent, for
\* old_price # 0; t is in hundredths of a percent
DropPercentAtLeast(new_price, old, t) ==
    IF old > 0 THEN (old - new_price) * 100 * 100 >= t * old
    ELSE (old - new_price) * 100 * 100 <= t * old

\* the division raises ZeroDivisionError
check_price_drop_raises(new_price, old, t) == ~IsNone(old) /\ Val(old) = 0

check_price_drop(new_price, old, t) ==
    IF IsNone(old) THEN FALSE
    ELSE DropPercentAtLeast(new_price, Val(old), t)

\* `if old_price:` - neither None nor 0.0
Truthy(old) == ~IsNone(old) /\ Val(old) # 0

\* float(os.getenv(threshold_key, '5.0')) raises ValueError
get_threshold_raises(value) ==
    ~IsNone(value) /\ ~FloatOk(Val(value))

get_threshold(value) ==
    IF IsNone(value) THEN FloatOf(<< "5", ".", "0" >>) ELSE FloatOf(Val(value))

\* values of PRICE_THRESHOLD_<n> in the environment
ThresholdEnv == { None, Some(<< "2" >>), Some(<< "a", "b", "c" >>) }

---------------------------------------------------------------------------
(* The notification keys of the environment *)

SetValue == Some(<< "x" >>)

Environments ==
    [ SMTP_HOST : {SetValue}, SMTP_USER : {SetValue}, SMTP_PASSWORD : {SetValue},
      SMTP_TO : {None, SetValue},
      SMTP_PORT : {None, Some(<< "a", "b", "c" >>)},
      WEBHOOK_URL : {None, SetValue} ]

\* a value that is None or '' is falsy
Falsy(value) == IsNone(value) \/ Val(value) = <<>>

\* int(os.getenv('SMTP_PORT', '587')) raises ValueError
smtp_port_raises(e) ==
    ~IsNone(e.SMTP_PORT)
    /\ (Val(e.SMTP_PORT) = <<>> \/ ~AllDecimal(Val(e.SMTP_PORT)))

\* not all([smtp_host, smtp_user, smtp_password, smtp_to])
smtp_not_configured(e) ==
    Falsy(e.SMTP_HOST) \/ Falsy(e.SMTP_USER) \/ Falsy(e.SMTP_PASSWORD) \/ Falsy(e.SMTP_TO)

\* not webhook_url
webhook_not_configured(e) == Falsy(e.WEBHOOK_URL)

Call(fn, model, old, new, attempted, ret) ==
    [fn |-> fn, model |-> model, old_price |-> old, new_price |-> new,
     attempted |-> attempted, ret |-> ret]

---------------------------------------------------------------------------
(* Initial states of a run of main() *)

\* entries a run can have appended: a price the model's source can yield
PossibleEntries ==
    { Entry(ts, m, Val(o)) :
        ts \in 1..MaxTime, m \in ModelKeys, o \in (AppleOutcomes \cup ReebeloOutcomes) \ {None} }

StoredEntries == { e \in PossibleEntries : Some(e.price) \in FetchOutcomes(e.model) }

\* prices.json before the run: absent, cut short by an interrupted write, or
\* the dump of a history
InitialFiles ==
    {Absent, OnDisk(<<>>)} \cup { OnDisk(json_dump(h)) : h \in SeqsUpTo(StoredEntries, MaxHist) }

NoResp == [status |-> 0, body |-> <<>>]

Idle ==
    /\ page = NoPage
    /\ drop = FALSE

Init ==
    /\ pc = "load"
    /\ file \in InitialFiles
    /\ env \in Environments
    /\ prices = <<>>
    /\ loaded = <<>>
    /\ timestamp = 0
    /\ i = 1
    /\ price = None
    /\ old_price = None
    /\ threshold = None
    /\ calls = <<>>
    /\ fetched = <<>>
    /\ api_resp = NoResp
    /\ Idle

---------------------------------------------------------------------------
(* main() *)

\* prices = load_prices(); timestamp = datetime.now().isoformat()
LoadPrices ==
    /\ pc = "load"
    /\ loaded' = load_prices(file)
    /\ prices' = load_prices(file)
    /\ \E now \in 1..MaxTime : timestamp' = now
    /\ pc' = "fetch"
    /\ UNCHANGED <<file, env, i, price, old_price, threshold, calls, fetched,
                   api_resp, page, drop>>

\* where the loop goes after the iteration of the i-th model
AfterModel(k) == IF k >= Len(MODELS) THEN "save" ELSE "fetch"

\* AppendEntry with prices.insert(0, entry)
PrependEntry(h, entry) == <<entry>> \o h

\* prices.append(entry)
AppendEntry(h, entry) == Append(h, entry)

\* get_latest_price(prices[:-1], model), on the list after the append
PriorPrice(h, model) == get_latest_price(SubSeq(h, 1, Len(h) - 1), model)

\* one pass of the loop up to `old_price = ...`: fetch_price(model), then
\* either `continue` or the new entry and the look-up of the prior price
FetchPrice ==
    /\ pc = "fetch"
    /\ \E o \in FetchOutcomes(MODELS[i]) :
          /\ fetched' = Append(fetched, [model |-> MODELS[i], price |-> o])
          /\ IF IsNone(o)
             THEN /\ i' = i + 1
                  /\ pc' = AfterModel(i)
                  /\ UNCHANGED <<prices, price, old_price>>
             ELSE /\ price' = o
                  /\ prices' = AppendEntry(prices, Entry(timestamp, MODELS[i], Val(o)))
                  /\ old_price' = PriorPrice(prices', MODELS[i])
                  /\ pc' = "detect"
                  /\ i' = i
    /\ UNCHANGED <<file, env, loaded, timestamp, threshold, calls, api_resp, page, drop>>

\* `if old_price:` ... get_threshold(model) ... `if check_price_drop(...)`.
\* PRICE_THRESHOLD_<n> is read once per model, hence at most once in a run:
\* its value is drawn where it is read.
Detect ==
    /\ pc = "detect"
    /\ IF ~Truthy(old_price)
       THEN /\ pc' = "iter_end"
            /\ UNCHANGED threshold
       ELSE \E value \in ThresholdEnv :
               IF get_threshold_raises(value)
               THEN /\ pc' = "raised"
                    /\ UNCHANGED threshold
               ELSE /\ threshold' = Some(get_threshold(value))
                    /\ pc' = IF check_price_drop(Val(price), old_price, get_threshold(value))
                             THEN "email" ELSE "iter_end"
    /\ UNCHANGED <<file, env, prices, loaded, timestamp, i, price, old_price,
                   calls, fetched, api_resp, page, drop>>

\* send_email_notification(model, old_price, price)
SendEmail ==
    /\ pc = "email"
    /\ IF smtp_port_raises(env)
       THEN /\ calls' = Append(calls, Call("send_email_notification", MODELS[i],
                                           old_price, price, FALSE, "ValueError"))
            /\ pc' = "raised"
       ELSE IF smtp_not_configured(env)
       THEN /\ calls' = Append(calls, Call("send_email_notification", MODELS[i],
                                           old_price, price, FALSE, "False"))
            /\ pc' = "webhook"
       ELSE \E delivered \in BOOLEAN :
               /\ calls' = Append(calls, Call("send_email_notification", MODELS[i],
                                              old_price, price, TRUE,
                                              IF delivered THEN "True" ELSE "False"))
               /\ pc' = "webhook"
    /\ UNCHANGED <<file, env, prices, loaded, timestamp, i, price, old_price,
                   threshold, fetched, api_resp, page, drop>>

\* send_webhook_notification(model, old_price, price)
SendWebhook ==
    /\ pc = "webhook"
    /\ IF webhook_not_configured(env)
       THEN calls' = Append(calls, Call("send_webhook_notification", MODELS[i],
                                        old_price, price, FALSE, "False"))
       ELSE \E delivered \in BOOLEAN :
               calls' = Append(calls, Call("send_webhook_notification", MODELS[i],
                                           old_price, price, TRUE,
                                           IF delivered THEN "True" ELSE "False"))
    /\ pc' = "iter_end"
    /\ UNCHANGED <<file, env, prices, loaded, timestamp, i, price, old_price,
                   threshold, fetched, api_resp, page, drop>>

\* the end of the loop body: on to the next model, or out of the loop. The
\* locals of the pass are dead from here on and are cleared.
NextModel ==
    /\ pc = "iter_end"
    /\ i' = i + 1
    /\ pc' = AfterModel(i)
    /\ price' = None
    /\ old_price' = None
    /\ threshold' = None
    /\ calls' = <<>>
    /\ UNCHANGED <<file, env, prices, loaded, timestamp, fetched, api_resp, page, drop>>

---------------------------------------------------------------------------
(* save_prices(prices) *)

\* open(PRICES_FILE, 'w') creates or truncates the file
SaveOpen ==
    /\ pc = "save"
    /\ file' = OnDisk(<<>>)
    /\ pc' = "write"
    /\ UNCHANGED <<env, prices, loaded, timestamp, i, price, old_price, threshold,
                   calls, fetched, api_resp, page, drop>>

\* json.dump writes the text piece by piece into the buffer of f, which is
\* written out each time it is full
SaveFlush ==
    /\ pc = "write"
    /\ Len(json_dump(prices)) - Len(file.content) > BufferTokens
    /\ file' = OnDisk(SubSeq(json_dump(prices), 1, Len(file.content) + BufferTokens))
    /\ UNCHANGED <<pc, env, prices, loaded, timestamp, i, price, old_price, threshold,
                   calls, fetched, api_resp, page, drop>>

\* leaving the with block writes out the rest and closes the file
SaveClose ==
    /\ pc = "write"
    /\ Len(json_dump(prices)) - Len(file.content) <= BufferTokens
    /\ file' = OnDisk(json_dump(prices))
    /\ pc' = "done"
    /\ UNCHANGED <<env, prices, loaded, timestamp, i, price, old_price, threshold,
                   calls, fetched, api_resp, page, drop>>

\* except IOError: open or a write fails, the error is logged, main() goes on
SaveIOError ==
    /\ pc \in {"save", "write"}
    /\ pc' = "done"
    /\ UNCHANGED <<file, env, prices, loaded, timestamp, i, price, old_price, threshold,
                   calls, fetched, api_resp, page, drop>>

---------------------------------------------------------------------------
(* The world around the run *)

Running == pc \in {"load", "fetch", "detect", "email", "webhook", "iter_end",
                   "save", "write"}

\* the process is killed (or the machine stops) where it stands
Crash ==
    /\ Running
    /\ pc' = "crashed"
    /\ UNCHANGED <<file, env, prices, loaded, timestamp, i, price, old_price, threshold,
                   calls, fetched, api_resp, page, drop>>

\* app.py get_prices(): GET /api/prices, served by another process; the
\* requests that arrive while the run is under way
get_prices(f) ==
    IF ~f.exists THEN [status |-> 200, body |-> <<>>]
    ELSE IF JsonOk(f.content) THEN [status |-> 200, body |-> json_load(f.content)]
    ELSE [status |-> 500, body |-> <<>>]

GetPrices ==
    /\ Running
    /\ api_resp' = get_prices(file)
    /\ UNCHANGED <<pc, file, env, prices, loaded, timestamp, i, price, old_price,
                   threshold, calls, fetched, page, drop>>

Next ==
    \/ LoadPrices
    \/ FetchPrice
    \/ Detect
    \/ SendEmail
    \/ SendWebhook
    \/ NextModel
    \/ SaveOpen
    \/ SaveFlush
    \/ SaveClose
    \/ SaveIOError

\* one run of main()
Spec == Init /\ [][Next]_vars

NextStore ==
    \/ Next
    \/ Crash
    \/ GetPrices

\* one run of main() that may be killed at any point, beside the read API
SpecStore == Init /\ [][NextStore]_vars

---------------------------------------------------------------------------
(* The functions studied alone: the arguments are drawn in the initial     *)
(* state, one action makes the call                                        *)

NoRun ==
    /\ file = Absent
    /\ env = [SMTP_HOST |-> None, SMTP_USER |-> None, SMTP_PASSWORD |-> None,
              SMTP_TO |-> None, SMTP_PORT |-> None, WEBHOOK_URL |-> None]
    /\ loaded = <<>>
    /\ timestamp = 0
    /\ calls = <<>>
    /\ fetched = <<>>
    /\ api_resp = NoResp

\* fetch_apple_refurbished_price on every page of AppleResponses
InitExtract ==
    /\ pc = "call"
    /\ page \in AppleResponses
    /\ price = None
    /\ prices = <<>> /\ i = 1 /\ old_price = None /\ threshold = None /\ drop = FALSE
    /\ NoRun

CallExtract ==
    /\ pc = "call"
    /\ price' = fetch_apple_refurbished_price(page)
    /\ pc' = "return"
    /\ UNCHANGED <<file, env, prices, loaded, timestamp, i, old_price, threshold,
                   calls, fetched, api_resp, page, drop>>

SpecExtract == InitExtract /\ [][CallExtract]_vars

\* thresholds handed to check_price_drop, in hundredths of a percent
DropThresholds == { 0 - 500, 0, 500, 1000, 2900 }

\* check_price_drop on prices up to MaxPrice, with and without an old price
InitDrop ==
    /\ pc = "call"
    /\ price \in { Some(p) : p \in 0..MaxPrice }
    /\ old_price \in {None} \cup { Some(p) : p \in (0 - 2)..MaxPrice }
    /\ threshold \in { Some(t) : t \in DropThresholds }
    /\ drop = FALSE
    /\ prices = <<>> /\ i = 1 /\ page = NoPage
    /\ NoRun

CallDrop ==
    /\ pc = "call"
    /\ IF check_price_drop_raises(Val(price), old_price, Val(threshold))
       THEN /\ pc' = "raised"
            /\ UNCHANGED drop
       ELSE /\ drop' = check_price_drop(Val(price), old_price, Val(threshold))
            /\ pc' = "return"
    /\ UNCHANGED <<file, env, prices, loaded, timestamp, i, price, old_price, threshold,
                   calls, fetched, api_resp, page>>

SpecDrop == InitDrop /\ [][CallDrop]_vars

\* entries of the histories handed to get_latest_price
LatestEntries ==
    { Entry(ts, MODELS[k], p) : ts \in 1..MaxStamp, k \in 1..2, p \in {1200, 1234} }

\* get_latest_price on every history of at most MaxLen such entries
InitLatest ==
    /\ pc = "call"
    /\ prices \in SeqsUpTo(LatestEntries, MaxLen)
    /\ i \in 1..2
    /\ old_price = None
    /\ price = None /\ threshold = None /\ drop = FALSE /\ page = NoPage
    /\ NoRun

CallLatest ==
    /\ pc = "call"
    /\ old_price' = get_latest_price(prices, MODELS[i])
    /\ pc' = "return"
    /\ UNCHANGED <<file, env, prices, loaded, timestamp, i, price, threshold,
                   calls, fetched, api_resp, page, drop>>

SpecLatest == InitLatest /\ [][CallLatest]_vars

---------------------------------------------------------------------------
(* The claims *)

SetMin(S) == CHOOSE m \in S : \A k \in S : m <= k
SetMax(S) == CHOOSE m \in S : \A k \in S : m >= k

EmailCall == "send_email_notification"
WebhookCall == "send_webhook_notification"

\* the pass of the loop for MODELS[i] has ended, normally or by an exception
PassEnded == pc \in {"iter_end", "raised"}

\* the history as it stood before this pass appended its entry
BeforeAppend == SubSeq(prices, 1, Len(prices) - 1)

\* C1: at the end of the pass of a model whose fetch yielded a price, both
\* send_email_notification and send_webhook_notification have been called,
\* each with (model, latest prior price, new price), if and only if the
\* history before the append holds an observation of the model and
\* check_price_drop(new price, latest prior price, threshold) is true;
\* otherwise neither has been called.
C1_NotifierIffDrop ==
    PassEnded =>
        LET prior == get_latest_price(BeforeAppend, MODELS[i])
            isDrop == /\ ~IsNone(prior)
                      /\ ~IsNone(threshold)
                      /\ ~check_price_drop_raises(Val(price), prior, Val(threshold))
                      /\ check_price_drop(Val(price), prior, Val(threshold))
            called(fn) == \E k \in 1..Len(calls) :
                             /\ calls[k].fn = fn
                             /\ calls[k].model = MODELS[i]
                             /\ calls[k].old_price = prior
                             /\ calls[k].new_price = price
        IN  IF isDrop THEN called(EmailCall) /\ called(WebhookCall)
            ELSE calls = <<>>

\* load_prices() has returned: `timestamp` is taken right after it
HasLoaded == timestamp > 0

\* C2: after a crash at any point past load_prices the file on disk still
\* holds the history loaded at the start of the run, or holds the complete
\* new history.
C2_CrashKeepsHistory ==
    (pc = "crashed" /\ HasLoaded) =>
        \/ load_prices(file) = loaded
        \/ /\ file.exists
           /\ JsonOk(file.content)
           /\ json_load(file.content) = prices

\* C3: a reader of the file of a run that loaded a history gets a response
\* that parses, and it is the old history or the new one.
C3_ReaderSeesWholeFile ==
    loaded # <<>> =>
        \/ api_resp = NoResp
        \/ /\ api_resp.status = 200
           /\ api_resp.body \in {loaded, prices}

\* C4: the list of the run always has the loaded list as a prefix, followed
\* by one entry for each fetch so far that returned a price, in the order of
\* the fetches, with the model and the price of that fetch; when save_prices
\* is called the fetches are those of the registry, in its order.
C4_AppendOnly ==
    pc \notin {"load"} =>
        LET new == SubSeq(prices, Len(loaded) + 1, Len(prices))
            found == SelectSeq(fetched, LAMBDA f : ~IsNone(f.price))
        IN  /\ Len(prices) >= Len(loaded)
            /\ SubSeq(prices, 1, Len(loaded)) = loaded
            /\ Len(new) = Len(found)
            /\ \A k \in 1..Len(new) :
                  /\ new[k].model = found[k].model
                  /\ new[k].price = Val(found[k].price)
                  /\ new[k].model \in ModelKeys
            /\ \A k \in 1..Len(fetched) : k <= Len(MODELS) /\ fetched[k].model = MODELS[k]
            /\ pc \in {"save", "write", "done"} => Len(fetched) = Len(MODELS)

C4_Witness ==
    /\ pc = "save"
    /\ loaded # <<>>
    /\ Len(prices) = Len(loaded) + 2

\* C5: the models are fetched once each, in the order of the registry, and
\* a run ends only after save_prices: it never ends by an exception.
C5_RunReachesSave ==
    /\ \A k \in 1..Len(fetched) : k <= Len(MODELS) /\ fetched[k].model = MODELS[k]
    /\ pc \in {"save", "write", "done"} => Len(fetched) = Len(MODELS)
    /\ pc # "raised"

\* C6: every entry the run appends has a price above zero.
C6_PositivePrice ==
    \A k \in (Len(loaded) + 1)..Len(prices) : prices[k].price > 0

C9_SinksIndependent ==
    /\ pc = "raised" => calls = <<>>
    /\ (PassEnded /\ calls # <<>>) =>
          /\ Len(calls) = 2
          /\ calls[1].fn = EmailCall
          /\ calls[2].fn = WebhookCall
    /\ \A k \in 1..Len(calls) :
          /\ calls[k].ret \in {"True", "False"}
          /\ (calls[k].fn = EmailCall /\ smtp_not_configured(env)) =>
                (~calls[k].attempted /\ calls[k].ret = "False")

\* the positions of the entries of the model, and those of them that carry
\* its greatest timestamp
Matching == { k \in 1..Len(prices) : prices[k].model = MODELS[i] }
Latest == { k \in Matching : \A j \in Matching : prices[j].timestamp <= prices[k].timestamp }

\* C8 as stated: get_latest_price returns None without an entry of the
\* model, and otherwise the price of the entry of the model with the
\* greatest timestamp, the last inserted of them among equals.
C8_LastInsertedWins ==
    pc = "return" =>
        IF Matching = {} THEN old_price = None
        ELSE old_price = Some(prices[SetMax(Latest)].price)

\* C8 amended: ... the first inserted of them among equals.
C8_FirstInsertedWins ==
    pc = "return" =>
        IF Matching = {} THEN old_price = None
        ELSE old_price = Some(prices[SetMin(Latest)].price)

C8_Witness ==
    /\ pc = "return"
    /\ Cardinality(Latest) >= 2
    /\ prices[SetMin(Latest)].price # prices[SetMax(Latest)].price
    /\ \E k \in 1..Len(prices) :
          /\ k \notin Matching
          /\ prices[k].timestamp > prices[SetMin(Latest)].timestamp
    /\ old_price = Some(prices[SetMin(Latest)].price)

\* the value of a digit string: in hundredths, the number itself when it has
\* more than two digits and a hundred times the number otherwise; None when
\* the string is no decimal number
DigitsValue(d) ==
    IF \E k \in 1..Len(d) : d[k] \notin DecimalDigits THEN None
    ELSE IF Len(d) > 2 THEN Some(ToNat(d))
    ELSE Some(100 * ToNat(d))

Matched == { k \in 1..Len(page.sel) : ~IsNone(page.sel[k]) }
WithDigits == { k \in Matched : AppleDigits(Val(page.sel[k])) # <<>> }

\* C10 as stated: the first selector that matches an element decides; the
\* result is the value of that element's digits, and None when no selector
\* matches or that element has no digit.
C10_FirstMatchDecides ==
    pc = "return" =>
        IF ~page.ok \/ Matched = {} THEN price = None
        ELSE LET d == AppleDigits(Val(page.sel[SetMin(Matched)]))
             IN  IF d = <<>> THEN price = None ELSE price = DigitsValue(d)

\* C10 amended: the first selector that matches an element with a digit
\* decides; the result is the value of that element's digits (None when they
\* are no decimal number), and None when no selector matches such an element.
C10_FirstWithDigitsDecides ==
    pc = "return" =>
        IF ~page.ok \/ WithDigits = {} THEN price = None
        ELSE price = DigitsValue(AppleDigits(Val(page.sel[SetMin(WithDigits)])))

C10_Witness ==
    /\ pc = "return"
    /\ page.ok
    /\ page.sel[1] = Some(<< "$" >>)
    /\ page.sel[2] = Some(<< "$", "1", ",", "2", "3", "4" >>)
    /\ page.sel[3] = Some(<< "0" >>)
    /\ price = Some(1234)

====
